---- MODULE Spec2Model ----
(***************************************************************************)
(* Two-party chat over a shared DHT record (veilid_demo/chat.py).          *)
(* The initiator (start) writes subkey 0 and polls subkey 1; the responder *)
(* (respond) writes subkey 1 and polls subkey 0.  Each process runs an     *)
(* orchestrator, a sender task and a receiver task on one event loop, plus *)
(* a one-thread executor hosting the blocking console read.                *)
(***************************************************************************)
EXTENDS Integers, Sequences, FiniteSets, TLC

(* ------------------------------ bounds --------------------------------- *)
\* lines the two operators type, in total, before end-of-input
MaxLines == 1
\* messages the two receivers print, in total
MaxPrints == 3
\* code points of a plaintext handed to the codec on its own
MaxLen == 2

(* ------------------------- program constants --------------------------- *)
NONCE_LENGTH == 24

\* Strings are sequences of code points 0..2; 0 and 1 are ASCII, 2 is not.
QUIT == <<1, 1>>
HELLO == <<0, 1>>

Procs == {"start", "respond"}
\* typed lines: an ordinary word, and the four letters Q-U-I-T
Lines == {<<0>>, QUIT}
\* seeds of the nonces random_nonce() returns during a session
NonceSeeds == {0}
\* key pair identities: the initiator's, the responder's, a third party's
KeyStart == 1
KeyRespond == 3
KeyOther == 2
\* load_key() returned None: nothing is stored under the name
NoKey == 0
Keys == {KeyStart, KeyRespond, KeyOther}

\* get_dht_value answers: no value, or an error of the API
None == [tag |-> "none", seq |-> -1, data |-> <<>>, kind |-> "none"]
ApiError == [tag |-> "error", seq |-> -1, data |-> <<>>, kind |-> "none"]
\* what decrypt gives when bytes.decode() raises: no string decodes to it
DecodeError == <<-1>>

(* ------------------------------ codec ---------------------------------- *)
\* str.encode(): ASCII code points are one byte, code point 2 is the two
\* bytes <<2, 3>> (lead byte, continuation byte).
RECURSIVE Utf8Encode(_)
Utf8Encode(s) ==
    IF s = <<>> THEN <<>>
    ELSE (IF Head(s) = 2 THEN <<2, 3>> ELSE <<Head(s)>>) \o Utf8Encode(Tail(s))

\* bytes.decode(): fails on a lead byte without its continuation byte and on
\* a stray continuation byte.
RECURSIVE Utf8Decode(_)
Utf8Decode(b) ==
    IF b = <<>> THEN <<>>
    ELSE IF Head(b) \in {0, 1}
         THEN LET rest == Utf8Decode(Tail(b))
              IN  IF rest = DecodeError THEN DecodeError ELSE <<Head(b)>> \o rest
    ELSE IF Head(b) = 2 /\ Len(b) >= 2 /\ b[2] = 3
         THEN LET rest == Utf8Decode(Tail(Tail(b)))
              IN  IF rest = DecodeError THEN DecodeError ELSE <<2>> \o rest
    ELSE DecodeError

\* bitwise exclusive or of two 2-bit bytes
Xor(a, b) == (((a % 2) + (b % 2)) % 2) + 2 * (((a \div 2) + (b \div 2)) % 2)

\* crypt_no_auth: a stream cipher, the same call encrypts and decrypts
KeyStream(nonce, secret, i) == (nonce[1] + (secret * i)) % 4
crypt_no_auth(data, nonce, secret) ==
    [i \in 1..Len(data) |-> Xor(data[i], KeyStream(nonce, secret, i))]

\* random_nonce(): NONCE_LENGTH bytes
random_nonce(seed) == [i \in 1..NONCE_LENGTH |-> seed]

\* cached_dh(their public key, my secret key)
cached_dh(theirKey, mySecret) == theirKey * mySecret

encrypt(cleartext, seed, secret) ==
    LET nonce == random_nonce(seed)
    IN  nonce \o crypt_no_auth(Utf8Encode(cleartext), nonce, secret)

\* decrypt(payload): nonce = payload[:NONCE_LENGTH], the rest is ciphertext
decrypt_whole(payload, secret) ==
    IF Len(payload) < NONCE_LENGTH THEN DecodeError
    ELSE LET nonce == SubSeq(payload, 1, NONCE_LENGTH)
         IN  Utf8Decode(crypt_no_auth(payload, nonce, secret))
decrypt(payload, secret) ==
    IF Len(payload) < NONCE_LENGTH THEN DecodeError
    ELSE LET nonce == SubSeq(payload, 1, NONCE_LENGTH)
             ciphertext == SubSeq(payload, NONCE_LENGTH + 1, Len(payload))
         IN  Utf8Decode(crypt_no_auth(ciphertext, nonce, secret))

(* ------------------------------ state ---------------------------------- *)
VARIABLES
    pc,         \* orchestrator position of start / respond
    raised,     \* the session function is ending with an exception
    notfound,   \* teardown got "record not found" from the substrate
    tlog,       \* record calls teardown has executed, in order
    their_key,  \* the friend's public key each process loaded
    record,     \* the shared DHT record: "none", "live", "deleted"
    opened,     \* the process holds the record open
    subkey,     \* per subkey, the writes in sequence-number order
    sstate,     \* sender task position
    msg,        \* the line async_input returned
    nlines,     \* lines the operators have typed so far
    rstate,     \* receiver task position
    last_seq,   \* receiver's last_seq
    printed,    \* what the receiver printed, with the sequence number
    rerr,       \* why the receiver task failed
    closedBy,   \* kind of the write that made the receiver return
    firstResp,  \* what became of the first non-empty poll response
    wrote,      \* subkeys the process called set_dht_value on
    polled,     \* subkeys the process called get_dht_value on
    self_key,   \* the key pair stored under "self" in each keystore
    exit_code,  \* exit status of the process, -1 while it runs
    read,       \* the lines async_input returned to the sender, in order
    eof,        \* async_input raised EOFError in the sender
    cmd,        \* the last key management command and what it did
    codec       \* a codec run: its inputs, the payload and the result

vars == <<pc, raised, notfound, tlog, their_key, record, opened, subkey,
          sstate, msg, nlines, rstate, last_seq, printed, rerr, closedBy,
          firstResp, wrote, polled, self_key, exit_code, read, eof, cmd, codec>>

\* what a chat session leaves alone: the keystores, the key management
\* commands and the codec run
fixedVars == <<their_key, self_key, cmd, codec>>
orchVars == <<pc, raised, notfound, tlog, exit_code>>
recVars == <<record, opened>>
sendVars == <<sstate, msg, nlines, wrote, read, eof>>
recvVars == <<rstate, last_seq, printed, rerr, closedBy, firstResp, polled>>

\* exit_code of a process that has not exited
Running == -1
\* no key management command has run; no codec run has begun
NoCmd == [name |-> "none", host |-> "none", generated |-> NoKey, code |-> Running]
NoCodec == [at |-> "none", cleartext |-> <<>>, secret |-> 0, seed |-> 0,
            payload |-> <<>>, result |-> <<>>]

Peer(p) == IF p = "start" THEN "respond" ELSE "start"
MyKey(p) == IF p = "start" THEN KeyStart ELSE KeyRespond

\* start: sender(..., 0), receiver(..., 1); respond: sender(..., 1), receiver(..., 0)
send_subkey_same(p) == 0
send_subkey(p) == IF p = "start" THEN 0 ELSE 1
recv_subkey(p) == IF p = "start" THEN 1 ELSE 0

\* secret = cached_dh(their_key, my_keypair.secret())
secret(p) == cached_dh(their_key[p], MyKey(p))

\* last_seq = -1
InitLastSeq_zero == -1 + 1
InitLastSeq == -1

\* the state of everything a chat session works on, before it begins
SessionInit ==
    /\ pc = [p \in Procs |-> "begin"]
    /\ raised = [p \in Procs |-> FALSE]
    /\ notfound = [p \in Procs |-> FALSE]
    /\ tlog = [p \in Procs |-> <<>>]
    /\ record = "none"
    /\ opened = [p \in Procs |-> FALSE]
    /\ subkey = [k \in {0, 1} |-> <<>>]
    /\ sstate = [p \in Procs |-> "idle"]
    /\ msg = [p \in Procs |-> <<>>]
    /\ nlines = 0
    /\ rstate = [p \in Procs |-> "idle"]
    /\ last_seq = [p \in Procs |-> InitLastSeq]
    /\ printed = [p \in Procs |-> <<>>]
    /\ rerr = [p \in Procs |-> "none"]
    /\ closedBy = [p \in Procs |-> "none"]
    /\ firstResp = [p \in Procs |-> "none"]
    /\ wrote = [p \in Procs |-> {}]
    /\ polled = [p \in Procs |-> {}]
    /\ exit_code = [p \in Procs |-> Running]
    /\ read = [p \in Procs |-> <<>>]
    /\ eof = [p \in Procs |-> FALSE]

\* Two hosts, each with the keystore its operator has set up: its own key
\* pair or none, the friend's public key (the right one, someone else's)
\* or none.
Init ==
    /\ SessionInit
    /\ self_key \in {k \in [Procs -> Keys \cup {NoKey}] :
                       \A p \in Procs : k[p] \in {MyKey(p), NoKey}}
    /\ their_key \in {k \in [Procs -> Keys \cup {NoKey}] :
                        /\ k["start"] \in {KeyRespond, NoKey}
                        /\ k["respond"] \in {KeyStart, KeyOther, NoKey}}
    /\ cmd = NoCmd
    /\ codec = NoCodec

(* --------------------------- orchestrator ------------------------------ *)
\* asyncio.create_task(sender(...)), asyncio.create_task(receiver(...)):
\* the sender begins at `await send("Hello from the world!")`, the receiver
\* at its polling loop
CreateTasks_noprime(p) ==
    /\ sstate' = [sstate EXCEPT ![p] = "input"]
    /\ rstate' = [rstate EXCEPT ![p] = "listening"]
CreateTasks(p) ==
    /\ sstate' = [sstate EXCEPT ![p] = "priming"]
    /\ rstate' = [rstate EXCEPT ![p] = "listening"]

\* The session function is over (returned, or left by an exception) and
\* asyncio.run winds the loop up: the process has exited, unless the sender
\* was cancelled inside async_input - then the loop is held by the join of
\* the thread that is still inside input().
\* An exception that leaves asyncio.run ends the process with status 1.
End(p, code) ==
    /\ pc' = [pc EXCEPT ![p] = IF sstate[p] = "input" THEN "exiting" ELSE "exited"]
    /\ exit_code' = [exit_code EXCEPT ![p] = IF sstate[p] = "input" THEN @ ELSE code]

\* config.py: the keystore of host h, under "self" and "friend:<name>"
load_self_key(h) == self_key[h]
store_self_key(h, keypair) == self_key' = [self_key EXCEPT ![h] = keypair]
load_friend_key(h) == their_key[h]
store_friend_key(h, pubkey) == their_key' = [their_key EXCEPT ![h] = pubkey]

\* if not my_keypair: ... sys.exit(1); if not their_key: ... sys.exit(1)
Precondition_self(p) == load_self_key(p) # NoKey
Precondition(p) == load_self_key(p) # NoKey /\ load_friend_key(p) # NoKey

\* print(...); sys.exit(1)
sys_exit(p) ==
    /\ pc' = [pc EXCEPT ![p] = "exited"]
    /\ exit_code' = [exit_code EXCEPT ![p] = 1]

\* start(): create the record, close it, reopen it with the key pair,
\* create the two tasks and wait.
start ==
    /\ pc["start"] = "begin"
    /\ record = "none"
    /\ IF Precondition("start")
       THEN /\ record' = "live"
            /\ opened' = [opened EXCEPT !["start"] = TRUE]
            /\ CreateTasks("start")
            /\ pc' = [pc EXCEPT !["start"] = "waiting"]
            /\ UNCHANGED exit_code
       ELSE /\ sys_exit("start")
            /\ UNCHANGED <<record, opened, sstate, rstate>>
    /\ UNCHANGED <<raised, notfound, tlog, fixedVars, subkey, msg, nlines, wrote, read, eof,
                   last_seq, printed, rerr, closedBy, firstResp, polled>>

\* respond(): open the record whose key the friend passed on, create the
\* two tasks and wait.  Opening a record that is gone raises before the try.
respond ==
    /\ pc["respond"] = "begin"
    /\ record # "none"
    /\ IF ~Precondition("respond")
       THEN /\ sys_exit("respond")
            /\ UNCHANGED <<raised, opened, sstate, rstate>>
       ELSE IF record = "live"
       THEN /\ opened' = [opened EXCEPT !["respond"] = TRUE]
            /\ CreateTasks("respond")
            /\ pc' = [pc EXCEPT !["respond"] = "waiting"]
            /\ UNCHANGED <<raised, exit_code>>
       ELSE /\ raised' = [raised EXCEPT !["respond"] = TRUE]
            /\ End("respond", 1)
            /\ UNCHANGED <<opened, sstate, rstate>>
    /\ UNCHANGED <<notfound, tlog, fixedVars, record, subkey, msg, nlines, wrote, read, eof,
                   last_seq, printed, rerr, closedBy, firstResp, polled>>

\* the tasks of p that are done(): returned, or ended by an exception
\* async_input: loop.run_in_executor(executor, input, prompt) - input() runs
\* on the executor's thread and the event loop stays free for the other
\* tasks; the loop is held only by the join of that thread (End).
LoopHeld_input(p) == sstate[p] \in {"input", "blocked"}
LoopHeld(p) == sstate[p] = "blocked"

\* the tasks of p that are done(): returned, or ended by an exception
Finished_started(p) == {t \in {"sender", "receiver"} :
                          IF t = "sender" THEN sstate[p] # "idle"
                                          ELSE rstate[p] # "idle"}
Finished(p) == {t \in {"sender", "receiver"} :
                  IF t = "sender" THEN sstate[p] \in {"done", "failed"}
                                  ELSE rstate[p] \in {"done", "failed"}}

\* asyncio.wait([send_task, recv_task], return_when=asyncio.FIRST_COMPLETED)
WaitReturns_all(p) == Finished(p) = {"sender", "receiver"}
WaitReturns(p) == Finished(p) # {}

wait(p) ==
    /\ pc[p] = "waiting"
    /\ ~LoopHeld(p)
    /\ WaitReturns(p)
    /\ pc' = [pc EXCEPT ![p] = "closing"]
    /\ UNCHANGED <<raised, notfound, tlog, exit_code, fixedVars, recVars, subkey, sendVars, recvVars>>

\* Task.cancel() on both tasks.  A sender cancelled inside async_input
\* leaves the `with ThreadPoolExecutor` block, whose shutdown(wait=True)
\* joins the thread that is still inside input().
CancelSender(s) ==
    IF s = "input" THEN "blocked"
    ELSE IF s \in {"priming", "sending", "quitting"} THEN "cancelled"
    ELSE s
CancelReceiver(r) == IF r = "listening" THEN "cancelled" ELSE r

CancelTasks(p) ==
    /\ sstate' = [sstate EXCEPT ![p] = CancelSender(sstate[p])]
    /\ rstate' = [rstate EXCEPT ![p] = CancelReceiver(rstate[p])]

\* The substrate answered "record not found" and nothing catches it: the
\* exception leaves the finally block, and asyncio.run cancels the tasks
\* that are left.
Raise(p) ==
    /\ raised' = [raised EXCEPT ![p] = TRUE]
    /\ notfound' = [notfound EXCEPT ![p] = TRUE]
    /\ CancelTasks(p)
    /\ End(p, 1)

\* recv_task.cancel(); send_task.cancel(), and the function returns
cleanup(p) ==
    /\ CancelTasks(p)
    /\ End(p, 0)
    /\ UNCHANGED <<raised, notfound>>

\* finally: await router.close_dht_record(key)
\* On a record the peer has deleted the substrate answers ok or "not found".
close_dht_record(p) ==
    /\ pc[p] = "closing"
    /\ ~LoopHeld(p)
    /\ tlog' = [tlog EXCEPT ![p] = Append(@, "close")]
    /\ opened' = [opened EXCEPT ![p] = FALSE]
    /\ \/ /\ pc' = [pc EXCEPT ![p] = "deleting"]
          /\ UNCHANGED <<raised, notfound, exit_code, sstate, rstate>>
       \/ /\ record = "deleted"
          /\ Raise(p)
    /\ UNCHANGED <<fixedVars, record, subkey, msg, nlines, wrote, read, eof,
                   last_seq, printed, rerr, closedBy, firstResp, polled>>

\* finally: await router.delete_dht_record(key); when it returns, cleanup
\* follows with no suspension point in between.
delete_dht_record(p) ==
    /\ pc[p] = "deleting"
    /\ ~LoopHeld(p)
    /\ tlog' = [tlog EXCEPT ![p] = Append(@, "delete")]
    /\ \/ /\ record' = "deleted"
          /\ cleanup(p)
       \/ /\ record = "deleted"
          /\ UNCHANGED record
          /\ Raise(p)
    /\ UNCHANGED <<fixedVars, opened, subkey, msg, nlines, wrote, read, eof,
                   last_seq, printed, rerr, closedBy, firstResp, polled>>

\* The console read returned: the thread ends, the join returns and the
\* process exits.
CanExit(p) == sstate[p] # "blocked"

exit(p) ==
    /\ pc[p] = "exiting"
    /\ CanExit(p)
    /\ pc' = [pc EXCEPT ![p] = "exited"]
    /\ exit_code' = [exit_code EXCEPT ![p] = IF raised[p] THEN 1 ELSE 0]
    /\ UNCHANGED <<raised, notfound, tlog, fixedVars, recVars, subkey, sendVars, recvVars>>

(* ------------------------------ sender --------------------------------- *)
\* send(cleartext): encrypt, then router.set_dht_value(key, send_subkey, ...).
\* The write gets the next sequence number of the subkey; on a record that
\* is deleted or that this process has closed the call raises.
send(p, cleartext, seed, kind, next) ==
    /\ wrote' = [wrote EXCEPT ![p] = @ \cup {send_subkey(p)}]
    /\ IF record = "live" /\ opened[p]
       THEN /\ subkey' = [subkey EXCEPT ![send_subkey(p)] =
                            Append(@, [data |-> encrypt(cleartext, seed, secret(p)),
                                       kind |-> kind, by |-> p])]
            /\ sstate' = [sstate EXCEPT ![p] = next]
       ELSE /\ sstate' = [sstate EXCEPT ![p] = "failed"]
            /\ UNCHANGED subkey

\* await send("Hello from the world!")
sender_prime(p) ==
    /\ sstate[p] = "priming"
    /\ \E seed \in NonceSeeds : send(p, HELLO, seed, "greeting", "input")
    /\ UNCHANGED <<orchVars, fixedVars, recVars, msg, nlines, read, eof, recvVars>>

\* msg = await async_input("SEND> "): the operator enters a line.  When the
\* task was cancelled meanwhile, the line only lets the executor thread end.
input_line(p) ==
    /\ nlines < MaxLines
    /\ \E line \in Lines :
         \/ /\ sstate[p] = "input"
            /\ sstate' = [sstate EXCEPT ![p] = "sending"]
            /\ msg' = [msg EXCEPT ![p] = line]
            /\ read' = [read EXCEPT ![p] = Append(@, line)]
         \/ /\ sstate[p] = "blocked"
            /\ sstate' = [sstate EXCEPT ![p] = "cancelled"]
            /\ UNCHANGED <<msg, read>>
    /\ nlines' = nlines + 1
    /\ UNCHANGED <<orchVars, fixedVars, recVars, subkey, wrote, eof, recvVars>>

\* except EOFError: the operator closed the input stream.
input_eof(p) ==
    /\ \/ /\ sstate[p] = "input"
          /\ sstate' = [sstate EXCEPT ![p] = "quitting"]
          /\ eof' = [eof EXCEPT ![p] = TRUE]
       \/ /\ sstate[p] = "blocked"
          /\ sstate' = [sstate EXCEPT ![p] = "cancelled"]
          /\ UNCHANGED eof
    /\ UNCHANGED <<orchVars, fixedVars, recVars, subkey, msg, nlines, wrote, read, recvVars>>

\* await send(msg)
sender_send(p) ==
    /\ sstate[p] = "sending"
    /\ \E seed \in NonceSeeds : send(p, msg[p], seed, "line", "input")
    /\ msg' = [msg EXCEPT ![p] = <<>>]
    /\ UNCHANGED <<orchVars, fixedVars, recVars, nlines, read, eof, recvVars>>

\* print("Closing the chat."); await send(QUIT); return
sender_quit_loop(p) ==
    /\ sstate[p] = "quitting"
    /\ \E seed \in NonceSeeds : send(p, QUIT, seed, "eof", "input")
    /\ UNCHANGED <<orchVars, fixedVars, recVars, msg, nlines, read, eof, recvVars>>
sender_quit(p) ==
    /\ sstate[p] = "quitting"
    /\ \E seed \in NonceSeeds : send(p, QUIT, seed, "eof", "done")
    /\ UNCHANGED <<orchVars, fixedVars, recVars, msg, nlines, read, eof, recvVars>>

(* ----------------------------- receiver -------------------------------- *)
\* What router.get_dht_value(key, recv_subkey, True) can answer: nothing,
\* or one of the values written to the subkey (the newest, or an older one
\* the network still serves); on a record that is gone or closed, nothing
\* or an error.
Written(k) == {[tag |-> "value", seq |-> i - 1, data |-> subkey[k][i].data, kind |-> subkey[k][i].kind] :
                 i \in 1..Len(subkey[k])}
Newest(k) == {r \in Written(k) : r.seq = Len(subkey[k]) - 1}
Responses(p) ==
    IF record = "live" /\ opened[p]
    THEN {None} \cup Written(recv_subkey(p))
    ELSE {None, ApiError}

\* if resp.seq == last_seq: continue
Skip_never(seq, last) == FALSE
Skip(seq, last) == seq = last

\* One pass of the receiver's while loop on the response resp.
receive(p, resp) ==
    /\ rstate[p] = "listening"
    /\ ~LoopHeld(p)
    /\ polled' = [polled EXCEPT ![p] = @ \cup {recv_subkey(p)}]
    /\ IF resp = None
       THEN UNCHANGED <<rstate, last_seq, printed, rerr, closedBy, firstResp>>
       ELSE IF resp = ApiError
       THEN /\ rstate' = [rstate EXCEPT ![p] = "failed"]
            /\ rerr' = [rerr EXCEPT ![p] = "api"]
            /\ UNCHANGED <<last_seq, printed, closedBy, firstResp>>
       ELSE IF Skip(resp.seq, last_seq[p])
       THEN /\ firstResp' = [firstResp EXCEPT ![p] = IF @ = "none" THEN "skipped" ELSE @]
            /\ UNCHANGED <<rstate, last_seq, printed, rerr, closedBy>>
       ELSE LET m == decrypt(resp.data, secret(p))
            IN  IF m = DecodeError
                THEN /\ rstate' = [rstate EXCEPT ![p] = "failed"]
                     /\ rerr' = [rerr EXCEPT ![p] = "decode"]
                     /\ firstResp' = [firstResp EXCEPT ![p] =
                                        IF @ = "none" THEN "undecodable" ELSE @]
                     /\ UNCHANGED <<last_seq, printed, closedBy>>
                ELSE IF m = QUIT
                THEN /\ rstate' = [rstate EXCEPT ![p] = "done"]
                     /\ closedBy' = [closedBy EXCEPT ![p] = resp.kind]
                     /\ firstResp' = [firstResp EXCEPT ![p] =
                                        IF @ = "none" THEN "closed" ELSE @]
                     /\ UNCHANGED <<last_seq, printed, rerr>>
                ELSE /\ Len(printed["start"]) + Len(printed["respond"]) < MaxPrints
                     /\ printed' = [printed EXCEPT ![p] =
                                      Append(@, [seq |-> resp.seq, text |-> m])]
                     /\ last_seq' = [last_seq EXCEPT ![p] = resp.seq]
                     /\ firstResp' = [firstResp EXCEPT ![p] =
                                        IF @ = "none" THEN "printed" ELSE @]
                     /\ UNCHANGED <<rstate, rerr, closedBy>>
    /\ UNCHANGED <<orchVars, fixedVars, recVars, subkey, sendVars>>

receiver(p) == \E resp \in Responses(p) : receive(p, resp)

\* the poll that obtains the newest value of the subkey
receiver_newest(p) ==
    /\ record = "live" /\ opened[p]
    /\ \E resp \in Newest(recv_subkey(p)) : receive(p, resp)

(* ------------------------------- system -------------------------------- *)
Next ==
    \/ start
    \/ respond
    \/ \E p \in Procs : wait(p)
    \/ \E p \in Procs : close_dht_record(p)
    \/ \E p \in Procs : delete_dht_record(p)
    \/ \E p \in Procs : exit(p)
    \/ \E p \in Procs : sender_prime(p)
    \/ \E p \in Procs : input_line(p)
    \/ \E p \in Procs : input_eof(p)
    \/ \E p \in Procs : sender_send(p)
    \/ \E p \in Procs : sender_quit(p)
    \/ \E p \in Procs : receiver(p)

Spec == Init /\ [][Next]_vars

\* The event loop runs every task that is ready, and a reader that keeps
\* polling a live record eventually obtains its newest value.  The operator
\* is under no obligation to type.
orchestrator(p) ==
    wait(p) \/ close_dht_record(p) \/ delete_dht_record(p) \/ exit(p)
sender(p) == sender_prime(p) \/ sender_send(p) \/ sender_quit(p)

Fairness ==
    /\ WF_vars(start) /\ WF_vars(respond)
    /\ \A p \in Procs :
         WF_vars(orchestrator(p)) /\ WF_vars(sender(p)) /\ WF_vars(receiver_newest(p))

FairSpec == Spec /\ Fairness

(* --------------------------- the codec alone --------------------------- *)
\* encrypt and decrypt applied to one plaintext under one secret and one
\* nonce, as sender and receiver apply them to every message.
CodePoints == {0, 1, 2}
Plaintexts == UNION {[1..n -> CodePoints] : n \in 0..MaxLen}
Secrets == {cached_dh(a, b) : a, b \in Keys}
NonceBytes == {0, 1, 2, 3}
sessionVars == <<orchVars, recVars, subkey, sendVars, recvVars>>

CodecInit ==
    /\ SessionInit
    /\ self_key = [p \in Procs |-> NoKey]
    /\ their_key = [p \in Procs |-> NoKey]
    /\ cmd = NoCmd
    /\ codec \in {[at |-> "input", cleartext |-> c, secret |-> k, seed |-> n,
                    payload |-> <<>>, result |-> <<>>] :
                      c \in Plaintexts, k \in Secrets, n \in NonceBytes}

\* ciphertext = await encrypt(cleartext)
codec_encrypt ==
    /\ codec.at = "input"
    /\ codec' = [codec EXCEPT !.at = "encrypted",
                              !.payload = encrypt(codec.cleartext, codec.seed, codec.secret)]
    /\ UNCHANGED <<sessionVars, their_key, self_key, cmd>>

\* msg = await decrypt(resp.data)
codec_decrypt ==
    /\ codec.at = "encrypted"
    /\ codec' = [codec EXCEPT !.at = "decrypted",
                              !.result = decrypt(codec.payload, codec.secret)]
    /\ UNCHANGED <<sessionVars, their_key, self_key, cmd>>

CodecNext == codec_encrypt \/ codec_decrypt
CodecSpec == CodecInit /\ [][CodecNext]_vars

(* ----------------------- key management commands ---------------------- *)
\* keygen, add-friend, delete-keystore and dump-keystore, run one at a time
\* on the keystore of a host; each keystore begins empty.
KeysInit ==
    /\ SessionInit
    /\ self_key = [p \in Procs |-> NoKey]
    /\ their_key = [p \in Procs |-> NoKey]
    /\ cmd = NoCmd
    /\ codec = NoCodec

\* keygen(): with a key pair stored, print it and sys.exit(1); otherwise
\* generate_key_pair() and store_self_key()
keygen_overwrite(h) ==
    /\ \E keypair \in Keys :
         /\ store_self_key(h, keypair)
         /\ cmd' = [name |-> "keygen", host |-> h, generated |-> keypair, code |-> 0]
    /\ UNCHANGED <<sessionVars, their_key, codec>>
keygen(h) ==
    /\ IF load_self_key(h) # NoKey
       THEN /\ cmd' = [name |-> "keygen", host |-> h, generated |-> NoKey, code |-> 1]
            /\ UNCHANGED self_key
       ELSE \E keypair \in Keys :
              /\ store_self_key(h, keypair)
              /\ cmd' = [name |-> "keygen", host |-> h, generated |-> keypair, code |-> 0]
    /\ UNCHANGED <<sessionVars, their_key, codec>>

\* add_friend(name, pubkey): store_friend_key, overwriting what is stored
add_friend(h, pubkey) ==
    /\ store_friend_key(h, pubkey)
    /\ cmd' = [name |-> "add_friend", host |-> h, generated |-> NoKey, code |-> 0]
    /\ UNCHANGED <<sessionVars, self_key, codec>>

\* delete_keystore(): the whole table goes
delete_keystore(h) ==
    /\ self_key' = [self_key EXCEPT ![h] = NoKey]
    /\ their_key' = [their_key EXCEPT ![h] = NoKey]
    /\ cmd' = [name |-> "delete_keystore", host |-> h, generated |-> NoKey, code |-> 0]
    /\ UNCHANGED <<sessionVars, codec>>

\* dump_keystore(): prints the keys, changes nothing
dump_keystore(h) ==
    /\ cmd' = [name |-> "dump_keystore", host |-> h, generated |-> NoKey, code |-> 0]
    /\ UNCHANGED <<sessionVars, self_key, their_key, codec>>

KeysNext ==
    \/ \E h \in Procs : keygen(h)
    \/ \E h \in Procs : \E pubkey \in Keys : add_friend(h, pubkey)
    \/ \E h \in Procs : delete_keystore(h)
    \/ \E h \in Procs : dump_keystore(h)
KeysSpec == KeysInit /\ [][KeysNext]_vars

(* ------------------------------ claims --------------------------------- *)
Started(p) == rstate[p] # "idle"
Ended(p) == pc[p] \in {"exiting", "exited"}

\* C1: at-most-once delivery - a receiver prints the message of one write
\* (one sequence number of its read-subkey) at most once.
C1_AtMostOnce ==
    \A p \in Procs : \A i, j \in 1..Len(printed[p]) :
        i # j => printed[p][i].seq # printed[p][j].seq

\* C2: termination symmetry as claimed - once a sender has written the
\* sentinel after end-of-input while the peer's receiver is polling, the
\* peer's receiver eventually receives the sentinel and the peer's session
\* ends, unless the peer stops polling for a reason of its own (end-of-input
\* on its own console, or a value it could not decode).
C2_SentinelReachesPeer ==
    \A p \in Procs :
        (sstate[p] = "done" /\ rstate[Peer(p)] = "listening")
            ~> \/ rstate[Peer(p)] = "done" /\ Ended(Peer(p))
               \/ sstate[Peer(p)] \in {"quitting", "done", "failed"}
               \/ rerr[Peer(p)] = "decode"

\* C2 (amended): a receiver that has received the sentinel has ended, and
\* its session eventually runs teardown and ends.
C2_ReceivedSentinelEndsSession ==
    \A p \in Procs : (rstate[p] = "done") ~> Ended(p)

C2_Witness ==
    \E p \in Procs : /\ closedBy[p] = "eof"
                     /\ sstate[Peer(p)] = "done"
                     /\ rstate[p] = "done"
                     /\ Ended(p)

\* C3: guaranteed teardown - a session whose two procedures were started
\* has executed close_dht_record and then delete_dht_record when the
\* session function ends.
C3_GuaranteedTeardown ==
    \A p \in Procs : (Started(p) /\ Ended(p)) => tlog[p] = <<"close", "delete">>

\* C4: benign double-delete - a teardown that gets "record not found" does
\* not raise.
C4_BenignDoubleDelete ==
    \A p \in Procs : notfound[p] => ~raised[p]

\* C5: reserved sentinel - a receiver returns (CLOSED) only on a sentinel
\* the peer's sender wrote because of end-of-input.
C5_SentinelReserved ==
    \A p \in Procs : closedBy[p] \in {"none", "eof"}

\* C6: prompt session end - once teardown is over and the tasks are
\* cancelled, the session function and the process can terminate without
\* any further event from the operator.
C6_PromptSessionEnd ==
    \A p \in Procs :
        (pc[p] = "exiting" /\ (sstate[p] = "done" \/ closedBy[p] = "eof")) => ENABLED exit(p)

\* C7: first-message delivery as claimed - the first non-empty value a
\* receiver obtains is printed, or ends the receiver when it is the sentinel.
C7_FirstValueDelivered ==
    \A p \in Procs : firstResp[p] \in {"none", "printed", "closed"}

\* C7 (amended): the first non-empty value a receiver obtains is never
\* skipped by the sequence check, whatever its sequence number: it is
\* decrypted, and it is delivered unless decrypt fails on it.
C7_FirstValueNotSkipped ==
    \A p \in Procs :
        /\ firstResp[p] \in {"none", "printed", "closed", "undecodable"}
        /\ firstResp[p] = "undecodable" => rerr[p] = "decode"

C7_Witness ==
    \E p \in Procs : /\ firstResp[p] = "printed"
                     /\ printed[p] # <<>>
                     /\ printed[p][1].seq = 0

\* C8: last_seq only ever increases, and a message is printed only when its
\* sequence number is beyond last_seq.
C8_LastSeqIncreases ==
    [][\A p \in Procs :
         /\ last_seq'[p] # last_seq[p] => last_seq'[p] > last_seq[p]
         /\ printed'[p] # printed[p] =>
                printed'[p][Len(printed'[p])].seq > last_seq[p]]_vars

\* C9: a decode failure ends the receiver with the error, prints nothing,
\* and the session then ends through close followed by delete.
C9_DecodeFailureFatal ==
    /\ [](\A p \in Procs :
            rerr[p] = "decode" =>
                /\ rstate[p] = "failed"
                /\ Ended(p) => tlog[p] = <<"close", "delete">>)
    /\ [][\A p \in Procs :
            (rerr[p] # "decode" /\ rerr'[p] = "decode") =>
                /\ printed'[p] = printed[p]
                /\ last_seq'[p] = last_seq[p]]_vars

\* C10: subkey ownership - start writes only subkey 0 and polls only
\* subkey 1, respond writes only subkey 1 and polls only subkey 0, and every
\* write on a subkey is by its one writer.
C10_SubkeyOwnership ==
    /\ wrote["start"] \subseteq {0} /\ polled["start"] \subseteq {1}
    /\ wrote["respond"] \subseteq {1} /\ polled["respond"] \subseteq {0}
    /\ \A i \in 1..Len(subkey[0]) : subkey[0][i].by = "start"
    /\ \A i \in 1..Len(subkey[1]) : subkey[1][i].by = "respond"

C10_Witness ==
    /\ wrote["start"] = {0} /\ polled["start"] = {1}
    /\ wrote["respond"] = {1} /\ polled["respond"] = {0}
    /\ subkey[0] # <<>> /\ subkey[1] # <<>>


\* C11: precondition errors - a start or respond invocation whose keystore
\* holds no key pair of its own, or no key of the named friend, exits with
\* status 1 straight from its beginning: the shared record is neither created
\* nor opened by it, it starts no procedure, writes and polls no subkey,
\* closes and deletes nothing, and raises nothing.
C11_PreconditionExit ==
    \A p \in Procs :
       (self_key[p] = NoKey \/ their_key[p] = NoKey) =>
          /\ pc[p] \in {"begin", "exited"}
          /\ pc[p] = "exited" => exit_code[p] = 1
          /\ p = "start" => record = "none"
          /\ ~opened[p] /\ tlog[p] = <<>>
          /\ sstate[p] = "idle" /\ rstate[p] = "idle"
          /\ wrote[p] = {} /\ polled[p] = {}
          /\ ~raised[p]

\* respond found its own key pair but no key of the friend, and has exited
\* with status 1 while the record its friend created is live
C11_Witness ==
    /\ self_key["respond"] # NoKey /\ their_key["respond"] = NoKey
    /\ pc["respond"] = "exited" /\ exit_code["respond"] = 1
    /\ record = "live"

\* C12: codec round-trip - decrypting with a secret what encrypt produced from
\* a plaintext under the same secret gives the plaintext back, whatever nonce
\* encrypt drew; the payload is the 24 bytes of that nonce followed by one
\* ciphertext byte for every byte of the encoded plaintext, so that the
\* split at byte 24 recovers the nonce.
C12_RoundTrip ==
    /\ codec.at \in {"encrypted", "decrypted"} =>
          /\ Len(codec.payload) = NONCE_LENGTH + Len(Utf8Encode(codec.cleartext))
          /\ SubSeq(codec.payload, 1, NONCE_LENGTH) = random_nonce(codec.seed)
    /\ codec.at = "decrypted" => codec.cleartext = codec.result

\* a plaintext with a non-ASCII code point came back from a payload whose
\* nonce is not the all-zero one
C12_Witness ==
    /\ codec.at = "decrypted"
    /\ Len(codec.cleartext) >= 2 /\ codec.cleartext[1] = 2
    /\ codec.seed # 0
    /\ codec.cleartext = codec.result

\* C13: keygen guard - a keygen run on a keystore that holds a key pair
\* generates none, exits with status 1 and leaves every stored key as it was;
\* a keygen run on a keystore that holds none generates a key pair and stores
\* exactly that one.  No step of any command replaces a stored key pair by
\* another one: a stored identity changes only from none to a key pair, or
\* to none when the keystore is deleted.
C13_KeygenGuard ==
    [][\A h \in Procs :
         /\ (cmd' # cmd /\ cmd'.name = "keygen" /\ cmd'.host = h) =>
               IF self_key[h] # NoKey
               THEN /\ cmd'.generated = NoKey /\ cmd'.code = 1
                    /\ self_key' = self_key /\ their_key' = their_key
               ELSE /\ cmd'.generated \in Keys /\ cmd'.code = 0
                    /\ self_key' = [self_key EXCEPT ![h] = cmd'.generated]
                    /\ their_key' = their_key
         /\ self_key'[h] # self_key[h] => (self_key[h] = NoKey \/ self_key'[h] = NoKey)]_vars

\* keygen has just refused on a host whose keystore holds a key pair
C13_Witness ==
    \E h \in Procs :
       /\ cmd.name = "keygen" /\ cmd.host = h /\ cmd.code = 1
       /\ self_key[h] # NoKey

\* C14: sender priming - the first value on a sender's write-subkey is the
\* greeting (it decrypts to the greeting text under the writer's secret), no
\* later value of the subkey is the greeting write, and a sender that waits
\* for console input, or has read any, has already written the greeting.
C14_SenderPriming ==
    \A p \in Procs :
       LET w == subkey[send_subkey(p)]
       IN  /\ w # <<>> => /\ w[1].kind = "greeting"
                          /\ decrypt(w[1].data, secret(p)) = HELLO
           /\ \A i \in 2..Len(w) : w[i].kind # "greeting"
           /\ (sstate[p] \in {"input", "blocked", "sending", "quitting", "done"}
                  \/ read[p] # <<>> \/ eof[p]) => w # <<>>

\* a sender has written the greeting and then a line its operator typed
C14_Witness ==
    \E p \in Procs :
       LET w == subkey[send_subkey(p)]
       IN  /\ Len(w) >= 2
           /\ decrypt(w[1].data, secret(p)) = HELLO
           /\ w[2].kind = "line" /\ read[p] # <<>>

\* the texts of the input lines on the write-subkey of p, in write order
IsLine(e) == e.kind = "line"
IsEof(e) == e.kind = "eof"
LinesWritten(p) ==
    LET l == SelectSeq(subkey[send_subkey(p)], IsLine)
    IN  [i \in 1..Len(l) |-> decrypt(l[i].data, secret(p))]
IsPrefix(a, b) == Len(a) <= Len(b) /\ a = SubSeq(b, 1, Len(a))

GetIssued(p) ==
    /\ rstate[p] = "listening"
    /\ \/ rstate'[p] \in {"done", "failed"}
       \/ polled'[p] # polled[p] \/ printed'[p] # printed[p] \/ rerr'[p] # rerr[p]
SetIssued(p) ==
    /\ sstate[p] \in {"priming", "sending", "quitting"}
    /\ sstate'[p] \in {"input", "done", "failed"}

\* C16: no record operation after local close - once the orchestrator of a
\* process has called close_dht_record, no procedure of that process calls
\* get_dht_value or set_dht_value any more.
C16_NoOpAfterClose ==
    [][\A p \in Procs : tlog[p] # <<>> => ~GetIssued(p) /\ ~SetIssued(p)]_vars

\* C17: first-completed join - an orchestrator that is closing or deleting
\* the record, or has done either, has a procedure that returned or failed;
\* as soon as one procedure has, the orchestrator's wait can return, whatever
\* the other one does; while both procedures are still running the
\* orchestrator is waiting, with the record open and nothing closed or
\* deleted by it.
C17_FirstCompletedJoin ==
    \A p \in Procs :
       LET senderOver == sstate[p] \in {"done", "failed"}
           receiverOver == rstate[p] \in {"done", "failed"}
           bothRunning == /\ sstate[p] \in {"priming", "input", "sending", "quitting"}
                          /\ rstate[p] = "listening"
       IN  /\ (pc[p] \in {"closing", "deleting"} \/ tlog[p] # <<>>) =>
                 (senderOver \/ receiverOver)
           /\ (pc[p] = "waiting" /\ (senderOver \/ receiverOver)) => ENABLED wait(p)
           /\ bothRunning => (pc[p] = "waiting" /\ tlog[p] = <<>> /\ opened[p])

\* the sender returned, the receiver never did: the orchestrator closed and
\* deleted the record and cancelled the receiver
C17_Witness ==
    \E p \in Procs :
       /\ tlog[p] = <<"close", "delete">>
       /\ sstate[p] = "done" /\ rstate[p] = "cancelled"

\* C18: transient read misses change nothing - a pass of the receiver's loop
\* whose poll answers no value, or a value with the sequence number the
\* receiver has in last_seq, prints nothing, leaves last_seq as it is and
\* leaves the receiver listening, neither returned nor failed; and a
\* listening receiver can always poll again.
C18_MissChangesNothing ==
    /\ [](\A p \in Procs : rstate[p] = "listening" => ENABLED receiver(p))
    /\ [][\A p \in Procs : \A resp \in Responses(p) :
            (/\ receive(p, resp)
             /\ \/ resp = None
                \/ resp.tag = "value" /\ resp.seq = last_seq[p]) =>
               /\ printed'[p] = printed[p]
               /\ last_seq'[p] = last_seq[p]
               /\ rstate'[p] = "listening"
               /\ rerr'[p] = "none" /\ closedBy'[p] = "none"]_vars

\* a receiver has polled an open, live record on which its peer has written
\* nothing yet, and is still listening with nothing printed
C18_Witness ==
    \E p \in Procs :
       /\ record = "live" /\ opened[p]
       /\ polled[p] # {} /\ subkey[recv_subkey(p)] = <<>>
       /\ rstate[p] = "listening" /\ last_seq[p] = InitLastSeq /\ printed[p] = <<>>

\* the newest value of p's read-subkey is one the receiver would print
Deliverable(p) ==
    \E resp \in Newest(recv_subkey(p)) :
       /\ resp.seq # last_seq[p]
       /\ decrypt(resp.data, secret(p)) \notin {DecodeError, QUIT}

\* C19: the console read does not stall the receiver - while the sender of a
\* process waits for a line of input, the listening receiver of that process
\* can poll; and when the newest value of its read-subkey on the open, live
\* record is a message it has not delivered, a step that prints it is
\* possible in which the sender still waits and no input has been read.
C19_ConsoleReadDoesNotStall ==
    \A p \in Procs :
       (sstate[p] = "input" /\ rstate[p] = "listening") =>
          /\ ENABLED receiver(p)
          /\ (/\ record = "live" /\ opened[p]
              /\ Deliverable(p)
              /\ Len(printed["start"]) + Len(printed["respond"]) < MaxPrints) =>
                ENABLED (/\ receiver_newest(p)
                         /\ printed'[p] # printed[p]
                         /\ sstate'[p] = "input")

\* a process whose sender waits for input, and has never read any, has
\* printed its peer's greeting and the line its peer typed
C19_Witness ==
    \E p \in Procs :
       /\ sstate[p] = "input" /\ read[p] = <<>> /\ ~eof[p]
       /\ rstate[p] = "listening"
       /\ Len(printed[p]) >= 2

\* C20: last-write-wins mailbox - a sender that has a write to make can make
\* it, whatever its peer has observed; every message a receiver has printed
\* is the plaintext of a write the peer's sender made to the subkey, and the
\* printed messages follow the order of those writes; and a message is
\* printed only while it is the most recent write of the subkey, never after
\* it has been overwritten.
C20_LastWriteWins ==
    /\ [](\A p \in Procs :
            LET w == subkey[recv_subkey(p)]
            IN  /\ sstate[p] \in {"priming", "sending", "quitting"} => ENABLED sender(p)
                /\ \A i \in 1..Len(printed[p]) :
                     /\ printed[p][i].seq \in 0..(Len(w) - 1)
                     /\ printed[p][i].text =
                           decrypt(w[printed[p][i].seq + 1].data, secret(Peer(p)))
                /\ \A i, j \in 1..Len(printed[p]) :
                     i < j => printed[p][i].seq < printed[p][j].seq)
    /\ [][\A p \in Procs :
            printed'[p] # printed[p] =>
               printed'[p][Len(printed'[p])].seq = Len(subkey[recv_subkey(p)]) - 1]_vars

====
